---- MODULE Spec2Model ----
(***************************************************************************)
(* The encounter/dungeon state machine of the recorder and its recording   *)
(* lifecycle: CombatParser (combat_parser/parser.py), RecordingState       *)
(* (state_manager.py), RecordingProcessor, RecordingFileManager,           *)
(* DungeonMonitor and the OBS client's start/stop.                         *)
(*                                                                         *)
(* Threads: the line-dispatch path (LogTailer._tail_file calling           *)
(* process_line), the DungeonMonitor loop, and one background thread per   *)
(* _start_thread call.  A handler is one atomic step up to each blocking   *)
(* time.sleep; the sleep is a program position at which the other threads  *)
(* run and the clock advances.                                             *)
(*                                                                         *)
(* Time is in seconds and the clock is observed every TickStep seconds.    *)
(* A sleeping thread waits while the others run.  The sleep inside         *)
(* validate_file_stable ends once the clock has passed its wake-up time,   *)
(* since what the recorder writes meanwhile decides the check.  The grace  *)
(* sleep of an END handler (time.sleep(3)) is shorter than a clock step:   *)
(* the clock is not observed to advance during it, and of two handlers in  *)
(* their grace sleep the one that began first returns first.  The rename   *)
(* delay and the monitor interval only delay their thread, and the model   *)
(* leaves open how far the clock moves during them.                        *)
(* None is 0 for ids and times (time.time() is positive, so the clock      *)
(* starts at 1) and "None" for names.                                      *)
(***************************************************************************)
EXTENDS Integers, Sequences, FiniteSets, TLC

\* ---------------------------------------------------------------- bounds
MaxThreads == 3
MaxTicks == 2
MaxPre == 2
MaxTail == 3
MaxLogLines == 2
MaxLoops == 3
MaxErrors == 2

\* ------------------------------------------------------ program constants
TickStep == 5
STABILITY_CHECK_INTERVAL == 1
MIN_RECORDING_DURATION == 5
DUNGEON_TIMEOUT_SECONDS == 4
GRACE_SECONDS == 3

NoneName == "None"
MaxTime == 1 + TickStep * MaxTicks

\* ------------------------------------------------------------- variables
VARIABLES
    cfg,      \* ConfigManager lookups, fixed while the recorder runs
    now,      \* time.time()
    state,    \* RecordingState
    disp,     \* the line-dispatch thread: position and locals
    mon,      \* the DungeonMonitor thread: position and locals
    tasks,    \* CombatParser._active_threads: every background thread started
    obs,      \* the external recorder (OBS)
    files,    \* the video files of the recording directory
    notes,    \* the events _emit_event handed to on_event, in order
    prev,     \* what the line-dispatch path processed last
    tail,     \* LogTailer: its flags, the tail threads it started, the logs
    shut,     \* which shutdown path has run: "none", "main" or "run"
    loops     \* the threads DungeonMonitor.start() launched, in order

vars == <<cfg, now, state, disp, mon, tasks, obs, files, notes, prev, tail, shut,
          loops>>

\* ------------------------------------------------------------ inputs
DungeonIds == {1}
Zones == {"Halls", "halls of stone", "City"}

\* CombatEvent.get_boss_info on the log's fields: the name the line carries
LineBossName(boss_id) == IF boss_id = 1 THEN "Boss A" ELSE "Boss B"
LineDungeonName(dungeon_id) == "Halls"

\* ---------------------------------------------------- RecordingState
EmptyState ==
    [recording |-> FALSE,
     encounter_active |-> FALSE, boss_id |-> 0, boss_name |-> NoneName,
     difficulty_id |-> 0, instance_id |-> 0, encounter_start_time |-> 0,
     dungeon_active |-> FALSE, dungeon_id |-> 0, dungeon_name |-> NoneName,
     dungeon_level |-> 0, dungeon_start_time |-> 0, last_activity_time |-> 0]

start_encounter(s, boss_id, boss_name, difficulty_id, instance_id, t) ==
    [s EXCEPT !.encounter_active = TRUE, !.boss_id = boss_id,
              !.boss_name = boss_name, !.difficulty_id = difficulty_id,
              !.instance_id = instance_id, !.encounter_start_time = t]

start_dungeon(s, dungeon_id, dungeon_name, dungeon_level, t) ==
    [s EXCEPT !.dungeon_active = TRUE, !.dungeon_id = dungeon_id,
              !.dungeon_name = dungeon_name, !.dungeon_level = dungeon_level,
              !.dungeon_start_time = t, !.last_activity_time = t]

\* recording_start_time feeds only get_recording_duration (status display)
\* and is left out of the record
\* a start_recording that loses its write
start_recording_lost(s, t) == s

start_recording(s, t) == [s EXCEPT !.recording = TRUE]

\* a reset that clears the activity and keeps the recording flag
reset_keeps_recording(s) == [EmptyState EXCEPT !.recording = s.recording]

reset(s) == EmptyState

\* an update_activity that keeps the old time
update_activity_kept(s, t) == s

update_activity(s, t) == [s EXCEPT !.last_activity_time = t]

\* an idle test that ignores the time
is_dungeon_idle_any(s, timeout_seconds, t) == s.dungeon_active

is_dungeon_idle(s, timeout_seconds, t) ==
    IF ~s.dungeon_active \/ s.last_activity_time = 0
    THEN FALSE
    ELSE t - s.last_activity_time > timeout_seconds

is_recording(s) == s.recording /\ (s.encounter_active \/ s.dungeon_active)

get_encounter_duration(s, t) ==
    IF s.encounter_active /\ s.encounter_start_time # 0
    THEN t - s.encounter_start_time
    ELSE IF s.dungeon_active /\ s.dungeon_start_time # 0
         THEN t - s.dungeon_start_time
         ELSE 0

\* ------------------------------------------------------ configuration
\* ConfigManager.is_difficulty_enabled
is_difficulty_enabled(c, difficulty_id) == difficulty_id \in c.enabled

\* ConfigManager.BOSS_NAME_OVERRIDES: boss 2 carries an override
BOSS_NAME_OVERRIDES == (2 :> "Big Boss")

Configs ==
    [enabled : {{3}}, RECORD_MPLUS : BOOLEAN,
     DELETE_SHORT_RECORDINGS : {TRUE}, MAX_RENAME_ATTEMPTS : {1},
     DUNGEON_TIMEOUT_SECONDS : {DUNGEON_TIMEOUT_SECONDS}, posix : {TRUE}]

\* ------------------------------------------------------------- events
\* A decoded CombatEvent: kind is event_type ("" when is_valid() is false),
\* ok says whether get_boss_info / get_dungeon_info return an info object.
Line(kind, ok, id, difficulty_id, level, flag, zone) ==
    [kind |-> kind, ok |-> ok, id |-> id, difficulty_id |-> difficulty_id,
     level |-> level, flag |-> flag, zone |-> zone]

Lines ==
    {Line("", FALSE, 0, 0, 0, FALSE, ""), Line("OTHER", FALSE, 0, 0, 0, FALSE, "")}
    \cup {Line("ENCOUNTER_START", TRUE, 1, 3, 0, FALSE, ""),
          Line("ENCOUNTER_START", TRUE, 2, 7, 0, FALSE, ""),
          Line("ENCOUNTER_START", FALSE, 0, 0, 0, FALSE, "")}
    \cup {Line("ENCOUNTER_END", FALSE, 0, 0, 0, f, "") : f \in {TRUE}}
    \cup {Line("CHALLENGE_MODE_START", TRUE, i, 0, 10, FALSE, "") : i \in DungeonIds}
    \cup {Line("CHALLENGE_MODE_START", FALSE, 0, 0, 0, FALSE, "")}
    \cup {Line("CHALLENGE_MODE_END", FALSE, 0, 0, 0, f, "") : f \in {TRUE}}
    \cup {Line("ZONE_CHANGE", TRUE, 0, 0, 0, FALSE, z) : z \in Zones \ {"Halls"}}
    \cup {Line("ZONE_CHANGE", FALSE, 0, 0, 0, FALSE, "")}

\* A raw log line: sep says whether it holds the double space that ends the
\* timestamp, fields is what csv.reader yields from the rest of the line.
RawLine(sep, fields) == [sep |-> sep, fields |-> fields]

\* the field texts int() accepts
Numerals == {"1", "2", "3", "7", "20", "2000"}

ToInt(tok) ==
    CASE tok = "1" -> 1 [] tok = "2" -> 2 [] tok = "3" -> 3 [] tok = "7" -> 7
      [] tok = "20" -> 20 [] tok = "2000" -> 2000

\* str.upper on the event names the inputs use
Upper(tok) == IF tok = "encounter_start" THEN "ENCOUNTER_START" ELSE tok

\* CombatEvent._parse_line: a line without the double space raises ValueError
\* in the split, an empty rest raises StopIteration; both leave event_type ""
event_type(raw) ==
    IF raw.sep /\ raw.fields # <<>> THEN Upper(raw.fields[1]) ELSE ""

\* CombatEvent.is_valid
is_valid(raw) == event_type(raw) # ""

NoBoss == [ok |-> FALSE, id |-> 0, difficulty_id |-> 0]

\* a get_boss_info that reads only the fields it keeps
get_boss_info_short(raw) ==
    IF event_type(raw) # "ENCOUNTER_START" \/ Len(raw.fields) < 4
    THEN NoBoss
    ELSE IF {raw.fields[2], raw.fields[4]} \subseteq Numerals
         THEN [ok |-> TRUE, id |-> ToInt(raw.fields[2]),
               difficulty_id |-> ToInt(raw.fields[4])]
         ELSE NoBoss

\* CombatEvent.get_boss_info: None for fewer than 6 fields or when int() fails
\* on the boss id, the difficulty or the instance id
get_boss_info(raw) ==
    IF event_type(raw) # "ENCOUNTER_START" \/ Len(raw.fields) < 6
    THEN NoBoss
    ELSE IF {raw.fields[2], raw.fields[4], raw.fields[6]} \subseteq Numerals
         THEN [ok |-> TRUE, id |-> ToInt(raw.fields[2]),
               difficulty_id |-> ToInt(raw.fields[4])]
         ELSE NoBoss

\* CombatEvent(raw_line) as process_line and _handle_encounter_start see it
CombatEvent(raw) ==
    IF ~is_valid(raw) THEN Line("", FALSE, 0, 0, 0, FALSE, "")
    ELSE IF event_type(raw) = "ENCOUNTER_START"
         THEN LET b == get_boss_info(raw)
              IN  Line("ENCOUNTER_START", b.ok, b.id, b.difficulty_id, 0, FALSE, "")
         ELSE Line("OTHER", FALSE, 0, 0, 0, FALSE, "")

\* raw lines: well-formed ENCOUNTER_STARTs and the ways a line can be malformed
RawLines ==
    {RawLine(sep, <<k, id, "Boss", d, "20", "2000">>) :
        sep \in BOOLEAN, k \in {"ENCOUNTER_START", "encounter_start"},
        id \in {"1", "x"}, d \in {"3"}}
    \cup {RawLine(TRUE, <<"ENCOUNTER_START", "1", "Boss", "3", "20">>),
          RawLine(TRUE, <<"ENCOUNTER_START", "1", "Boss", "3", "20", "">>),
          RawLine(TRUE, <<"ENCOUNTER_START", "1">>),
          RawLine(TRUE, <<>>),
          RawLine(TRUE, <<"", "1", "Boss", "3", "20", "2000">>),
          RawLine(TRUE, <<"SPELL_DAMAGE", "1">>)}

\* BossInfo / DungeonInfo handed to the background threads
Info(of, id, name, difficulty_id, instance_id, level) ==
    [of |-> of, id |-> id, name |-> name, difficulty_id |-> difficulty_id,
     instance_id |-> instance_id, level |-> level]

BossInfo(boss_id, name, difficulty_id, instance_id) ==
    Info("boss", boss_id, name, difficulty_id, instance_id, 0)

DungeonInfo(dungeon_id, name, dungeon_level) ==
    Info("dungeon", dungeon_id, name, 0, 0, dungeon_level)

NoInfo == Info("none", 0, NoneName, 0, 0, 0)

InstanceOf(boss_id) == 2000

\* a containment test that respects case
ZoneContainsExact(dungeon_name, zone) ==
    dungeon_name = "Halls" /\ zone \in {"Halls"}

\* current_dungeon.lower() not in new_zone.lower()
ZoneContains(dungeon_name, zone) ==
    dungeon_name = "Halls" /\ zone \in {"Halls", "halls of stone"}

\* ---------------------------------------------------------- file names
FileName(time, who, label, attempt) ==
    [time |-> time, who |-> who, label |-> label, attempt |-> attempt]

NoFile == FileName(0, "", "", 0)

\* BossInfo.formatted_name / DungeonInfo.formatted_name on the model's names
formatted_name(name) ==
    CASE name = "Boss A" -> "Boss_A"
      [] name = "Boss B" -> "Boss_B"
      [] name = "Big Boss" -> "Big_Boss"
      [] name = "Unknown Dungeon" -> "Unknown_Dungeon"
      [] OTHER -> name

DIFFICULTY_NAMES(difficulty_id) ==
    CASE difficulty_id = 3 -> "Mythic"
      [] difficulty_id = 7 -> "LFR"
      [] OTHER -> "Difficulty_"

\* generate_filename: {date}_{time}_{formatted_name}_{label}{ext}; the
\* attempt counter is part of the name handed in by the duplicate handlers
generate_filename(info, attempt, file_time) ==
    IF info.of = "boss"
    THEN FileName(file_time, formatted_name(info.name),
                  DIFFICULTY_NAMES(info.difficulty_id), attempt)
    ELSE FileName(file_time, formatted_name(info.name), "M+", attempt)

\* --------------------------------------------------------- file system
\* files maps each existing video file's name to its modification time and
\* the recording it holds (content).  The recorder only appends, so a file's
\* st_size changes exactly when its st_mtime does: Size reads it off mtime.
Exists(fs, path) == path \in DOMAIN fs

File(mtime, content) == [mtime |-> mtime, content |-> content]

Size(fs, path) == fs[path].mtime

\* max(video_files, key=st_mtime): on equal times the one iterdir lists first
find_latest_recording(fs) ==
    {n \in DOMAIN fs : \A m \in DOMAIN fs : fs[m].mtime <= fs[n].mtime}

\* the file the recorder holds open (Windows refuses to rename or unlink it)
Locked(fs, o, c) ==
    IF c.posix \/ ~o.recording THEN {}
    ELSE {n \in DOMAIN fs : fs[n].content = o.count}

RECURSIVE DuplicateLoop(_, _, _, _, _, _)
DuplicateLoop(fs, c, path, counter, info, file_time) ==
    IF Exists(fs, path) /\ counter <= c.MAX_RENAME_ATTEMPTS
    THEN DuplicateLoop(fs, c, generate_filename(info, counter, file_time),
                       counter + 1, info, file_time)
    ELSE path

\* _handle_duplicate_filename / _handle_duplicate_dungeon_filename
handle_duplicate_filename(fs, c, path, info, file_time) ==
    LET p == DuplicateLoop(fs, c, path, 1, info, file_time)
    IN  IF Exists(fs, p) THEN path ELSE p

\* Path.rename(src, dst): POSIX replaces an existing dst silently, Windows
\* raises FileExistsError; a missing or locked src raises on both.
\* ok says whether the call returned without raising.
PathRename(fs, locked, c, src, dst) ==
    IF ~Exists(fs, src) \/ src \in locked
    THEN [files |-> fs, ok |-> FALSE]
    ELSE IF dst = src
    THEN [files |-> fs, ok |-> TRUE]
    ELSE IF Exists(fs, dst) /\ ~c.posix
    THEN [files |-> fs, ok |-> FALSE]
    ELSE [files |-> [n \in (DOMAIN fs \ {src}) \cup {dst} |->
                        IF n = dst THEN fs[src] ELSE fs[n]],
          ok |-> TRUE]

\* rename_recording: the new path, or NoFile for None
rename_recording(fs, locked, c, recording_path, info) ==
    IF ~Exists(fs, recording_path)
    THEN [files |-> fs, path |-> NoFile]
    ELSE LET file_time == fs[recording_path].mtime
             new_path == handle_duplicate_filename(
                             fs, c, generate_filename(info, 0, file_time),
                             info, file_time)
             r == PathRename(fs, locked, c, recording_path, new_path)
         IN  [files |-> r.files, path |-> IF r.ok THEN new_path ELSE NoFile]

\* delete_recording
delete_recording(fs, locked, recording_path) ==
    IF ~Exists(fs, recording_path) \/ recording_path \in locked
    THEN [files |-> fs, ok |-> FALSE]
    ELSE [files |-> [n \in DOMAIN fs \ {recording_path} |-> fs[n]], ok |-> TRUE]

\* ------------------------------------------------------------ recorder
RawName(k) == FileName(k, "obs", "raw", 0)

\* OBSClient.start_recording; up says whether the connection answers
obs_start_recording(o, fs, t, up) ==
    IF ~up THEN [obs |-> o, files |-> fs, ok |-> FALSE]
    ELSE IF o.recording THEN [obs |-> o, files |-> fs, ok |-> TRUE]
    ELSE [obs |-> [recording |-> TRUE, count |-> o.count + 1],
          files |-> (RawName(o.count + 1) :> File(t, o.count + 1)) @@ fs,
          ok |-> TRUE]

\* OBSClient.stop_recording
obs_stop_recording(o, up) ==
    IF ~up THEN [obs |-> o, ok |-> FALSE]
    ELSE IF ~o.recording THEN [obs |-> o, ok |-> TRUE]
    ELSE [obs |-> [o EXCEPT !.recording = FALSE], ok |-> TRUE]

\* the recorder appends to the file of the running recording
Written(fs, o, t) ==
    [n \in DOMAIN fs |->
        IF o.recording /\ fs[n].content = o.count
        THEN File(t, fs[n].content)
        ELSE fs[n]]

\* --------------------------------------------------- background threads
\* One record per thread _start_thread started.  ops lists, in order, the
\* recorder and file calls the thread has made and "saved" for
\* on_recording_saved.
Task(kind, info, duration) ==
    [kind |-> kind, pc |-> "begin", info |-> info, duration |-> duration,
     wake |-> 0, path |-> NoFile, size |-> 0, ops |-> <<>>, result |-> FALSE]

\* _start_thread
StartThread(ts, kind, info, duration) == Append(ts, Task(kind, info, duration))

\* the thread function returns: its locals are gone
Finish(t, ops, result) ==
    [Task(t.kind, NoInfo, 0) EXCEPT !.pc = "done", !.ops = t.ops \o ops,
                                    !.result = result]

\* a gate that asks the Mythic+ flag for encounters too
GateMplusOnly(c, t) == c.RECORD_MPLUS

\* a gate that asks the per-difficulty flags for dungeons too
GateDifficultyOnly(c, t) == is_difficulty_enabled(c, t.info.difficulty_id)

\* the gate of process_encounter_start/_end and process_dungeon_start/_end
Gate(c, t) ==
    IF t.kind \in {"enc_start", "enc_end"}
    THEN is_difficulty_enabled(c, t.info.difficulty_id)
    ELSE c.RECORD_MPLUS

\* a start thread that takes every return of the recorder for a success
ProcessStartAlwaysMarks(i, up) ==
    /\ i \in DOMAIN tasks
    /\ tasks[i].kind \in {"enc_start", "dun_start"}
    /\ tasks[i].pc = "begin"
    /\ IF ~Gate(cfg, tasks[i])
       THEN /\ tasks' = [tasks EXCEPT ![i] = Finish(@, <<>>, FALSE)]
            /\ UNCHANGED <<obs, files>>
       ELSE LET r == obs_start_recording(obs, files, now, up)
            IN  /\ obs' = r.obs
                /\ files' = r.files
                /\ tasks' = [tasks EXCEPT ![i] =
                       [@ EXCEPT !.pc = "mark", !.ops = @ \o <<"start">>,
                                 !.result = TRUE]]
    /\ UNCHANGED <<loops, tail, shut, cfg, now, state, disp, mon, notes, prev>>

\* _process_encounter_start_thread / _process_dungeon_start_thread up to the
\* return of process_encounter_start / process_dungeon_start
ProcessStart(i, up) ==
    /\ i \in DOMAIN tasks
    /\ tasks[i].kind \in {"enc_start", "dun_start"}
    /\ tasks[i].pc = "begin"
    /\ IF ~Gate(cfg, tasks[i])
       THEN /\ tasks' = [tasks EXCEPT ![i] = Finish(@, <<>>, FALSE)]
            /\ UNCHANGED <<obs, files>>
       ELSE LET r == obs_start_recording(obs, files, now, up)
            IN  /\ obs' = r.obs
                /\ files' = r.files
                /\ tasks' = [tasks EXCEPT ![i] =
                       IF r.ok
                       THEN [@ EXCEPT !.pc = "mark", !.ops = @ \o <<"start">>,
                                      !.result = TRUE]
                       ELSE Finish(@, <<"start">>, FALSE)]
    /\ UNCHANGED <<loops, tail, shut, cfg, now, state, disp, mon, notes, prev>>

\* ... if success: self.state.start_recording()
MarkRecording(i) ==
    /\ i \in DOMAIN tasks
    /\ tasks[i].pc = "mark"
    /\ state' = start_recording(state, now)
    /\ tasks' = [tasks EXCEPT ![i] = Finish(@, <<"mark">>, TRUE)]
    /\ UNCHANGED <<loops, tail, shut, cfg, now, disp, mon, obs, files, notes, prev>>

\* an end thread that goes on to the file policy whatever the stop returned
ProcessEndIgnoringStop(i, up) ==
    /\ i \in DOMAIN tasks
    /\ tasks[i].kind \in {"enc_end", "dun_end"}
    /\ tasks[i].pc = "begin"
    /\ IF ~Gate(cfg, tasks[i])
       THEN /\ tasks' = [tasks EXCEPT ![i] = Finish(@, <<>>, FALSE)]
            /\ obs' = obs
       ELSE LET r == obs_stop_recording(obs, up)
            IN  /\ obs' = r.obs
                /\ tasks' = [tasks EXCEPT ![i] =
                       [@ EXCEPT !.pc = "delay", !.ops = @ \o <<"stop">>]]
    /\ UNCHANGED <<loops, tail, shut, cfg, now, state, disp, mon, files, notes, prev>>

\* process_encounter_end / process_dungeon_end up to time.sleep(wait_time)
ProcessEnd(i, up) ==
    /\ i \in DOMAIN tasks
    /\ tasks[i].kind \in {"enc_end", "dun_end"}
    /\ tasks[i].pc = "begin"
    /\ IF ~Gate(cfg, tasks[i])
       THEN /\ tasks' = [tasks EXCEPT ![i] = Finish(@, <<>>, FALSE)]
            /\ obs' = obs
       ELSE LET r == obs_stop_recording(obs, up)
            IN  /\ obs' = r.obs
                /\ tasks' = [tasks EXCEPT ![i] =
                       IF r.ok
                       THEN [@ EXCEPT !.pc = "delay", !.ops = @ \o <<"stop">>]
                       ELSE Finish(@, <<"stop">>, FALSE)]
    /\ UNCHANGED <<loops, tail, shut, cfg, now, state, disp, mon, files, notes, prev>>

\* a short-recording handler that deletes whatever the flag says
HandleShortAlwaysDelete(i) ==
    IF find_latest_recording(files) = {}
    THEN /\ tasks' = [tasks EXCEPT ![i] = Finish(@, <<"find">>, FALSE)]
         /\ files' = files
    ELSE \E path \in find_latest_recording(files) :
            LET r == delete_recording(files, Locked(files, obs, cfg), path)
            IN  /\ files' = r.files
                /\ tasks' = [tasks EXCEPT ![i] =
                       Finish(@,
                              IF r.ok THEN <<"find", "delete", "saved">>
                                      ELSE <<"find", "delete">>,
                              r.ok)]

\* _handle_short_recording; saved is result and self.on_recording_saved
HandleShortRecording(i) ==
    IF ~cfg.DELETE_SHORT_RECORDINGS
    THEN /\ tasks' = [tasks EXCEPT ![i] = Finish(@, <<"saved">>, TRUE)]
         /\ files' = files
    ELSE IF find_latest_recording(files) = {}
    THEN /\ tasks' = [tasks EXCEPT ![i] = Finish(@, <<"find">>, FALSE)]
         /\ files' = files
    ELSE \E path \in find_latest_recording(files) :
            LET r == delete_recording(files, Locked(files, obs, cfg), path)
            IN  /\ files' = r.files
                /\ tasks' = [tasks EXCEPT ![i] =
                       Finish(@,
                              IF r.ok THEN <<"find", "delete", "saved">>
                                      ELSE <<"find", "delete">>,
                              r.ok)]

\* _process_recording_file up to the sleep inside validate_file_stable
ProcessRecordingFile(i) ==
    /\ i \in DOMAIN tasks
    /\ tasks[i].pc = "delay"
    /\ IF tasks[i].duration < MIN_RECORDING_DURATION
       THEN HandleShortRecording(i)
       ELSE /\ files' = files
            /\ IF find_latest_recording(files) = {}
               THEN tasks' = [tasks EXCEPT ![i] = Finish(@, <<"find">>, FALSE)]
               ELSE \E path \in find_latest_recording(files) :
                       tasks' = [tasks EXCEPT ![i] =
                           [@ EXCEPT !.pc = "stable", !.path = path,
                                     !.size = Size(files, path),
                                     !.ops = @ \o <<"find", "validate">>,
                                     !.wake = now + STABILITY_CHECK_INTERVAL]]
    /\ UNCHANGED <<loops, tail, shut, cfg, now, state, disp, mon, obs, notes, prev>>

\* a file policy that renames without looking at the stability check
RenameUnchecked(i) ==
    /\ i \in DOMAIN tasks
    /\ tasks[i].pc = "stable"
    /\ now >= tasks[i].wake
    /\ LET t == tasks[i]
           r == rename_recording(files, Locked(files, obs, cfg), cfg, t.path, t.info)
       IN  /\ files' = r.files
           /\ tasks' = [tasks EXCEPT ![i] =
                  Finish(@, IF r.path # NoFile THEN <<"rename", "saved">>
                                               ELSE <<"rename">>,
                         r.path # NoFile)]
    /\ UNCHANGED <<loops, tail, shut, cfg, now, state, disp, mon, obs, notes, prev>>

\* validate_file_stable after its sleep, then rename_recording
RenameStable(i) ==
    /\ i \in DOMAIN tasks
    /\ tasks[i].pc = "stable"
    /\ now >= tasks[i].wake
    /\ LET t == tasks[i]
           stable == Exists(files, t.path) /\ Size(files, t.path) = t.size
           r == rename_recording(files, Locked(files, obs, cfg), cfg, t.path, t.info)
       IN  IF ~stable
           THEN /\ tasks' = [tasks EXCEPT ![i] = Finish(@, <<>>, FALSE)]
                /\ files' = files
           ELSE /\ files' = r.files
                /\ tasks' = [tasks EXCEPT ![i] =
                       Finish(@, IF r.path # NoFile THEN <<"rename", "saved">>
                                                    ELSE <<"rename">>,
                              r.path # NoFile)]
    /\ UNCHANGED <<loops, tail, shut, cfg, now, state, disp, mon, obs, notes, prev>>

\* -------------------------------------------------------- notifications
\* The dict _emit_event hands to on_event: its type, the activity's name and
\* difficulty or level, the kill/success flag and the reason.  Its duration is
\* the value the handler keeps in its local (disp.duration, mon.duration).
Note(type, name, level, flag, reason) ==
    [type |-> type, name |-> name, level |-> level, flag |-> flag,
     reason |-> reason]

\* CombatEvent.get_dungeon_end_info / get_encounter_end_info: the success flag
get_end_info(l) ==
    IF l.kind \in {"CHALLENGE_MODE_END", "ENCOUNTER_END"} THEN l.flag ELSE FALSE

\* the line the idle monitor fabricates: CHALLENGE_MODE_END,<id>,<name>,0,0
SyntheticEnd == Line("CHALLENGE_MODE_END", FALSE, 0, 0, 0, FALSE, "")

OrName(name, default) == IF name = NoneName THEN default ELSE name

\* ------------------------------------------------------ the handlers
\* Each handler is given the thread record th that runs it and yields the
\* thread's next record; th.pc = "ready" means the handler has returned.

\* _handle_dungeon_start
HandleDungeonStart(s, l) ==
    IF s.dungeon_active \/ ~l.ok
    THEN /\ state' = s
         /\ UNCHANGED <<disp, tasks, notes>>
    ELSE LET dungeon_info == DungeonInfo(l.id, LineDungeonName(l.id), l.level)
         IN  /\ state' = start_dungeon(s, l.id, dungeon_info.name, l.level, now)
             /\ tasks' = StartThread(tasks, "dun_start", dungeon_info, 0)
             /\ notes' = Append(notes, Note("DUNGEON_START", dungeon_info.name,
                                            l.level, FALSE, ""))
             /\ disp' = disp

\* _handle_dungeon_end up to time.sleep(3): what the running thread keeps
DungeonEndLocals(s, l, reason) ==
    [pc |-> "dun_end",
     info |-> DungeonInfo(s.dungeon_id, OrName(s.dungeon_name, "Unknown Dungeon"),
                          s.dungeon_level),
     duration |-> get_encounter_duration(s, now)]

DungeonEndNote(s, l, reason) ==
    Note("DUNGEON_END", s.dungeon_name, s.dungeon_level, get_end_info(l), reason)

\* _handle_dungeon_end on the dispatch path, up to time.sleep(3)
HandleDungeonEnd(s, l, reason) ==
    IF ~s.dungeon_active
    THEN /\ state' = s
         /\ UNCHANGED <<disp, tasks, notes>>
    ELSE /\ state' = s
         /\ notes' = Append(notes, DungeonEndNote(s, l, reason))
         /\ disp' = DungeonEndLocals(s, l, reason)
         /\ tasks' = tasks

\* _handle_zone_change
HandleZoneChange(s, l) ==
    IF s.dungeon_active /\ l.ok /\ s.dungeon_name # NoneName
       /\ ~ZoneContains(s.dungeon_name, l.zone)
    THEN HandleDungeonEnd(s, l, "zone_change")
    ELSE /\ state' = s
         /\ UNCHANGED <<disp, tasks, notes>>

\* _handle_encounter_start
HandleEncounterStart(s, l) ==
    IF is_recording(s) \/ ~l.ok
    THEN /\ state' = s
         /\ UNCHANGED <<disp, tasks, notes>>
    ELSE LET name == IF l.id \in DOMAIN BOSS_NAME_OVERRIDES
                     THEN BOSS_NAME_OVERRIDES[l.id] ELSE LineBossName(l.id)
             boss_info == BossInfo(l.id, name, l.difficulty_id, InstanceOf(l.id))
         IN  /\ state' = start_encounter(s, l.id, name, l.difficulty_id,
                                         InstanceOf(l.id), now)
             /\ tasks' = StartThread(tasks, "enc_start", boss_info, 0)
             /\ notes' = Append(notes, Note("ENCOUNTER_START", name,
                                            l.difficulty_id, FALSE, ""))
             /\ disp' = disp

\* _handle_encounter_end up to time.sleep(3)
HandleEncounterEnd(s, l) ==
    IF ~s.encounter_active
    THEN /\ state' = s
         /\ UNCHANGED <<disp, tasks, notes>>
    ELSE /\ state' = s
         /\ notes' = Append(notes, Note("ENCOUNTER_END", s.boss_name, s.difficulty_id,
                                        get_end_info(l), ""))
         /\ disp' = [pc |-> "enc_end",
                     info |-> BossInfo(s.boss_id, OrName(s.boss_name, "Unknown"),
                                       s.difficulty_id, s.instance_id),
                     duration |-> get_encounter_duration(s, now)]
         /\ tasks' = tasks

Ready == [pc |-> "ready", info |-> NoInfo, duration |-> 0]

\* ----------------------------------------------- the line-dispatch path
\* handlers that have emitted their END event and not yet started their thread
Pending == (IF disp.pc # "ready" THEN 1 ELSE 0) + (IF mon.pc = "dun_end" THEN 1 ELSE 0)

\* the model stops feeding events once MaxThreads threads are started or due
Room == Len(tasks) + Pending < MaxThreads

Idle(s) == ~s.encounter_active /\ ~s.dungeon_active

\* history: "start" when the line just processed was a parsable
\* ENCOUNTER_START of an enabled difficulty met in the Idle state, "other" for
\* any other line, "end" when an END handler has just returned
Prev(l, s) ==
    IF l.kind = "ENCOUNTER_START" /\ l.ok /\ Idle(s)
       /\ is_difficulty_enabled(cfg, l.difficulty_id)
    THEN "start" ELSE "other"

\* a dispatch path that joins the background threads before the next line
ProcessLineJoined(l) ==
    /\ disp.pc = "ready"
    /\ Room
    /\ \A i \in DOMAIN tasks : tasks[i].pc = "done"
    /\ prev' = Prev(l, state)
    /\ IF l.kind = ""
       THEN UNCHANGED <<state, disp, tasks, notes>>
       ELSE LET s == IF state.dungeon_active
                     THEN update_activity(state, now) ELSE state
            IN  CASE l.kind = "CHALLENGE_MODE_START" -> HandleDungeonStart(s, l)
                  [] l.kind = "CHALLENGE_MODE_END" ->
                         HandleDungeonEnd(s, l, "dungeon_complete")
                  [] l.kind = "ZONE_CHANGE" -> HandleZoneChange(s, l)
                  [] l.kind = "ENCOUNTER_START" -> HandleEncounterStart(s, l)
                  [] l.kind = "ENCOUNTER_END" -> HandleEncounterEnd(s, l)
                  [] OTHER -> /\ state' = s
                              /\ UNCHANGED <<disp, tasks, notes>>
    /\ UNCHANGED <<loops, tail, shut, cfg, now, mon, obs, files>>

\* process_line, up to the handler's return or its time.sleep(3)
ProcessLine(l) ==
    /\ disp.pc = "ready"
    /\ Room
    /\ prev' = Prev(l, state)
    /\ IF l.kind = ""
       THEN UNCHANGED <<state, disp, tasks, notes>>
       ELSE LET s == IF state.dungeon_active
                     THEN update_activity(state, now) ELSE state
            IN  CASE l.kind = "CHALLENGE_MODE_START" -> HandleDungeonStart(s, l)
                  [] l.kind = "CHALLENGE_MODE_END" ->
                         HandleDungeonEnd(s, l, "dungeon_complete")
                  [] l.kind = "ZONE_CHANGE" -> HandleZoneChange(s, l)
                  [] l.kind = "ENCOUNTER_START" -> HandleEncounterStart(s, l)
                  [] l.kind = "ENCOUNTER_END" -> HandleEncounterEnd(s, l)
                  [] OTHER -> /\ state' = s
                              /\ UNCHANGED <<disp, tasks, notes>>
    /\ UNCHANGED <<loops, tail, shut, cfg, now, mon, obs, files>>

\* an END handler that leaves the reset to the background thread
FinishEndNoReset ==
    /\ disp.pc \in {"enc_end", "dun_end"}
    /\ mon.pc # "dun_end"
    /\ tasks' = StartThread(tasks, IF disp.pc = "enc_end" THEN "enc_end" ELSE "dun_end",
                            disp.info, disp.duration)
    /\ state' = state
    /\ disp' = Ready
    /\ prev' = "end"
    /\ UNCHANGED <<loops, tail, shut, cfg, now, mon, obs, files, notes>>

\* _handle_encounter_end / _handle_dungeon_end after time.sleep(3): start the
\* end thread, reset the state, return.  A monitor found in its own grace
\* sleep began it earlier (a processed line resets the idle time, and the
\* timeout is longer than the sleep), so it returns first.
FinishEnd ==
    /\ disp.pc \in {"enc_end", "dun_end"}
    /\ mon.pc # "dun_end"
    /\ tasks' = StartThread(tasks, IF disp.pc = "enc_end" THEN "enc_end" ELSE "dun_end",
                            disp.info, disp.duration)
    /\ state' = reset(state)
    /\ disp' = Ready
    /\ prev' = "end"
    /\ UNCHANGED <<loops, tail, shut, cfg, now, mon, obs, files, notes>>

\* FinishEnd in its two steps.  The end thread reads nothing of State, so its
\* steps commute with the reset and FinishEnd takes both steps at once; the
\* order of the reset and the thread's first step shows only when the steps
\* are taken apart.
\* self._start_thread(...): the thread is started and may run from here on
StartEndThread ==
    /\ disp.pc \in {"enc_end", "dun_end"}
    /\ mon.pc \notin {"dun_end", "reset"}
    /\ tasks' = StartThread(tasks, IF disp.pc = "enc_end" THEN "enc_end" ELSE "dun_end",
                            disp.info, disp.duration)
    /\ disp' = [pc |-> "reset", info |-> disp.info, duration |-> disp.duration,
                thread |-> Len(tasks) + 1]
    /\ UNCHANGED <<loops, tail, shut, cfg, now, state, mon, obs, files, notes, prev>>

\* self.state.reset(), and the handler returns
ResetEnd ==
    /\ disp.pc = "reset"
    /\ state' = reset(state)
    /\ disp' = Ready
    /\ prev' = "end"
    /\ UNCHANGED <<loops, tail, shut, cfg, now, mon, tasks, obs, files, notes>>

\* ------------------------------------------------------ the idle monitor
\* a timeout callback without its guard on dungeon_active
DungeonTimeoutUnguarded ==
    /\ mon.pc = "sleep"
    /\ Room
    /\ notes' = Append(notes, DungeonEndNote(state, SyntheticEnd, "timeout"))
    /\ mon' = [running |-> mon.running]
              @@ DungeonEndLocals(state, SyntheticEnd, "timeout")
    /\ UNCHANGED <<loops, tail, shut, cfg, now, state, disp, tasks, obs, files, prev>>

\* _handle_dungeon_timeout on the monitor thread, up to the time.sleep(3) of
\* _handle_dungeon_end
DungeonTimeout ==
    /\ mon.pc = "sleep"
    /\ Room
    /\ IF state.dungeon_active
       THEN /\ notes' = Append(notes, DungeonEndNote(state, SyntheticEnd, "timeout"))
            /\ mon' = [running |-> mon.running]
                      @@ DungeonEndLocals(state, SyntheticEnd, "timeout")
       ELSE /\ notes' = notes
            /\ mon' = mon
    /\ UNCHANGED <<loops, tail, shut, cfg, now, state, disp, tasks, obs, files, prev>>

\* One pass of DungeonMonitor._monitor_loop after its sleep: the check and,
\* when idle, _handle_dungeon_timeout up to the time.sleep(3) of
\* _handle_dungeon_end
MonitorCheck ==
    /\ mon.running
    /\ mon.pc = "sleep"
    /\ Room
    /\ IF state.dungeon_active
          /\ is_dungeon_idle(state, cfg.DUNGEON_TIMEOUT_SECONDS, now)
       THEN DungeonTimeout
       ELSE UNCHANGED vars

\* a timeout handler that leaves the dungeon active
MonitorFinishEndNoReset ==
    /\ mon.pc = "dun_end"
    /\ tasks' = StartThread(tasks, "dun_end", mon.info, mon.duration)
    /\ mon' = [running |-> mon.running, pc |-> "sleep", info |-> NoInfo,
               duration |-> 0]
    /\ UNCHANGED <<loops, tail, shut, cfg, now, state, disp, obs, files, notes, prev>>

\* the rest of _handle_dungeon_end on the monitor thread, then
\* time.sleep(self._check_interval)
MonitorFinishEnd ==
    /\ mon.pc = "dun_end"
    /\ tasks' = StartThread(tasks, "dun_end", mon.info, mon.duration)
    /\ state' = reset(state)
    /\ mon' = [running |-> mon.running, pc |-> "sleep", info |-> NoInfo,
               duration |-> 0]
    /\ UNCHANGED <<loops, tail, shut, cfg, now, disp, obs, files, notes, prev>>

\* MonitorFinishEnd in its two steps
MonitorStartEndThread ==
    /\ mon.pc = "dun_end"
    /\ tasks' = StartThread(tasks, "dun_end", mon.info, mon.duration)
    /\ mon' = [running |-> mon.running, pc |-> "reset", info |-> mon.info,
               duration |-> mon.duration, thread |-> Len(tasks) + 1]
    /\ UNCHANGED <<loops, tail, shut, cfg, now, state, disp, obs, files, notes, prev>>

MonitorResetEnd ==
    /\ mon.pc = "reset"
    /\ state' = reset(state)
    /\ mon' = [running |-> mon.running, pc |-> "sleep", info |-> NoInfo,
               duration |-> 0]
    /\ UNCHANGED <<loops, tail, shut, cfg, now, disp, tasks, obs, files, notes, prev>>

\* ------------------------------------------------------------- the clock
Tick ==
    /\ now < MaxTime
    /\ Pending > 0 => TickStep <= GRACE_SECONDS
    /\ now' = now + TickStep
    /\ files' = Written(files, obs, now + TickStep)
    /\ UNCHANGED <<loops, tail, shut, cfg, state, disp, mon, tasks, obs, notes, prev>>

\* ---------------------------------------------------------- LogTailer
\* A tail thread: the log it reads, how many of its lines it has read, and
\* where it is: "read" at the head of the loop of _tail_file, "line" inside
\* process_line, "grace" inside process_line in the time.sleep(3) of an END
\* handler, "exit" when _tail_file has returned.
TailThread(file, pos) == [file |-> file, pos |-> pos, pc |-> "read"]

\* LogTailer.__init__ under a started LogMonitor; written[f] counts the lines
\* the game has appended to log f, tail_thread is the index of _tail_thread
\* (0 for None), observing says whether the directory observer runs.
NoTail ==
    [is_tailing |-> FALSE, stop_event |-> FALSE, tail_thread |-> 0,
     threads |-> <<>>, written |-> [f \in 1..MaxTail |-> 0],
     observing |-> TRUE]

InLine(th) == th.pc \in {"line", "grace"}

\* LogTailer.stop_tailing: set the event, join the tail thread for 2 s.  A
\* thread at the head of its loop or in a quick process_line sees the event
\* and returns in time; one in a 3 s grace sleep does so only when waits says
\* the sleep ends within the join.  seen are earlier threads, still alive, that
\* poll the event while it is set.
stop_tailing(tl, waits, seen) ==
    IF ~tl.is_tailing \/ tl.tail_thread = 0
    THEN tl
    ELSE LET t == tl.tail_thread
             joined == tl.threads[t].pc # "grace" \/ waits
         IN  [tl EXCEPT !.stop_event = TRUE, !.is_tailing = FALSE,
                        !.tail_thread = IF joined THEN 0 ELSE t,
                        !.threads = [j \in DOMAIN tl.threads |->
                            IF (j = t /\ joined)
                               \/ (j # t /\ j \in seen /\ tl.threads[j].pc = "read")
                            THEN [tl.threads[j] EXCEPT !.pc = "exit"]
                            ELSE tl.threads[j]]]

\* LogDirHandler._handle_new_file -> LogTailer.start_tailing on a new log:
\* stop the current tailer, clear the (shared) stop event, start a thread that
\* begins at the end of the new file
StartTailing ==
    /\ tail.observing
    /\ Len(tail.threads) < MaxTail
    /\ \E waits \in BOOLEAN, seen \in SUBSET DOMAIN tail.threads :
          LET tl == stop_tailing(tail, waits, seen)
              n == Len(tl.threads) + 1
          IN  tail' = [tl EXCEPT !.stop_event = FALSE, !.is_tailing = TRUE,
                                 !.tail_thread = n,
                                 !.threads = Append(@, TailThread(n, tl.written[n]))]
    /\ UNCHANGED <<loops, shut, cfg, now, state, disp, mon, tasks, obs, files, notes, prev>>

\* LogMonitor.stop: LogDirHandler.stop stops the tailer, then the observer
\* is stopped
StopMonitor ==
    /\ tail.observing
    /\ \E waits \in BOOLEAN, seen \in SUBSET DOMAIN tail.threads :
          tail' = [stop_tailing(tail, waits, seen) EXCEPT !.observing = FALSE]
    /\ UNCHANGED <<loops, shut, cfg, now, state, disp, mon, tasks, obs, files, notes, prev>>

\* the game appends a line to its current log
WriteLine ==
    /\ tail.threads # <<>>
    /\ LET f == Len(tail.threads)
       IN  /\ tail.written[f] < MaxLogLines
           /\ tail' = [tail EXCEPT !.written[f] = @ + 1]
    /\ UNCHANGED <<loops, shut, cfg, now, state, disp, mon, tasks, obs, files, notes, prev>>

\* _tail_file: the event is not set and readline returns a line, which is
\* handed to process_line; ends says whether it ends an activity
ReadLine(i, ends) ==
    /\ i \in DOMAIN tail.threads
    /\ tail.threads[i].pc = "read"
    /\ ~tail.stop_event
    /\ tail.threads[i].pos < tail.written[tail.threads[i].file]
    /\ tail' = [tail EXCEPT !.threads[i].pos = @ + 1,
                            !.threads[i].pc = IF ends THEN "grace" ELSE "line"]
    /\ UNCHANGED <<loops, shut, cfg, now, state, disp, mon, tasks, obs, files, notes, prev>>

\* process_line returns to the loop of _tail_file
ReturnLine(i) ==
    /\ i \in DOMAIN tail.threads
    /\ InLine(tail.threads[i])
    /\ tail' = [tail EXCEPT !.threads[i].pc = "read"]
    /\ UNCHANGED <<loops, shut, cfg, now, state, disp, mon, tasks, obs, files, notes, prev>>

\* _tail_file finds the event set at the head of its loop and returns
ExitTail(i) ==
    /\ i \in DOMAIN tail.threads
    /\ tail.threads[i].pc = "read"
    /\ tail.stop_event
    /\ tail' = [tail EXCEPT !.threads[i].pc = "exit"]
    /\ UNCHANGED <<loops, shut, cfg, now, state, disp, mon, tasks, obs, files, notes, prev>>

\* ------------------------------------------------------------ shutdown
\* main.py, finally block: log_monitor.stop(), then parser.shutdown(), which
\* stops the dungeon monitor and joins the background threads (5 s each)
ShutdownMain ==
    /\ shut = "none"
    /\ shut' = "main"
    /\ mon' = [mon EXCEPT !.running = FALSE]
    /\ UNCHANGED <<loops, tail, cfg, now, state, disp, tasks, obs, files, notes, prev>>

\* run.py, shutdown_recorder: log_monitor.stop() and obs_client.disconnect()
ShutdownRecorder ==
    /\ shut = "none"
    /\ shut' = "run"
    /\ UNCHANGED <<loops, tail, cfg, now, state, disp, mon, tasks, obs, files, notes, prev>>

\* the tail thread hands a line to process_line while no stop is signalled
DispatchLine ==
    /\ shut = "none"
    /\ \E l \in Lines : ProcessLine(l)

\* ------------------------------------------- DungeonMonitor start and stop
\* A thread running _monitor_loop: "sleep" in time.sleep(self._check_interval)
\* or about to test self._running, "done" once the loop has ended; errors are
\* the "Error in monitor" messages its except clause printed.
LoopThread == [pc |-> "sleep", errors |-> <<>>]

Live == {i \in DOMAIN loops : loops[i].pc # "done"}

\* DungeonMonitor.start()
MonitorStart ==
    /\ Len(loops) < MaxLoops
    /\ IF mon.running
       THEN UNCHANGED <<mon, loops>>
       ELSE /\ mon' = [mon EXCEPT !.running = TRUE]
            /\ loops' = Append(loops, LoopThread)
    /\ UNCHANGED <<tail, shut, cfg, now, state, disp, tasks, obs, files, notes, prev>>

\* DungeonMonitor.stop(): the flag is lowered and the newest thread is joined
\* for 2 seconds; the threads in exited see the flag within that time
MonitorStop(exited) ==
    /\ exited \subseteq Live
    /\ mon' = [mon EXCEPT !.running = FALSE]
    /\ loops' = [i \in DOMAIN loops |->
                    IF i \in exited THEN [loops[i] EXCEPT !.pc = "done"]
                    ELSE loops[i]]
    /\ UNCHANGED <<tail, shut, cfg, now, state, disp, tasks, obs, files, notes, prev>>

\* _handle_dungeon_timeout as one step of the thread that calls it
TimeoutCallback ==
    IF state.dungeon_active
    THEN LET locals == DungeonEndLocals(state, SyntheticEnd, "timeout")
         IN  /\ notes' = Append(notes, DungeonEndNote(state, SyntheticEnd, "timeout"))
             /\ tasks' = StartThread(tasks, "dun_end", locals.info, locals.duration)
             /\ state' = reset(state)
    ELSE UNCHANGED <<notes, tasks, state>>

\* a loop that an error ends
LoopCheckFatal(i, raises) ==
    /\ loops[i].pc = "sleep"
    /\ mon.running
    /\ Room
    /\ raises # "none"
    /\ loops' = [loops EXCEPT ![i].pc = "done"]
    /\ UNCHANGED <<notes, tasks, state>>
    /\ UNCHANGED <<tail, shut, cfg, now, disp, mon, obs, files, prev>>

\* One pass of _monitor_loop in thread i, which found self._running true:
\* the check and the callback, either of which may raise ("check": the idle
\* test raises, "callback": on_timeout raises before it has changed
\* anything); the except clause prints the error and the loop sleeps again.
LoopCheck(i, raises) ==
    /\ loops[i].pc = "sleep"
    /\ mon.running
    /\ Room
    /\ LET idle == /\ state.dungeon_active
                   /\ is_dungeon_idle(state, cfg.DUNGEON_TIMEOUT_SECONDS, now)
       IN  \/ /\ raises = "none"
              /\ IF idle THEN TimeoutCallback ELSE UNCHANGED <<notes, tasks, state>>
              /\ loops' = loops
           \/ /\ raises = "check" \/ (raises = "callback" /\ idle)
              /\ Len(loops[i].errors) < MaxErrors
              /\ loops' = [loops EXCEPT ![i].errors = Append(@, raises)]
              /\ UNCHANGED <<notes, tasks, state>>
    /\ UNCHANGED <<tail, shut, cfg, now, disp, mon, obs, files, prev>>

\* thread i wakes, finds self._running false and leaves the loop
LoopExit(i) ==
    /\ loops[i].pc = "sleep"
    /\ ~mon.running
    /\ loops' = [loops EXCEPT ![i].pc = "done"]
    /\ UNCHANGED <<tail, shut, cfg, now, state, disp, mon, tasks, obs, files, notes, prev>>

\* ------------------------------------------------------ specification
\* CombatParser.__init__ with RecordingState(): empty state, no thread, the
\* monitor started, the recorder stopped, an empty recording directory
Init ==
    /\ tail = NoTail
    /\ loops = <<LoopThread>>
    /\ shut = "none"
    /\ cfg \in Configs
    /\ now = 1
    /\ state = EmptyState
    /\ disp = Ready
    /\ mon = [running |-> TRUE, pc |-> "sleep", info |-> NoInfo, duration |-> 0]
    /\ tasks = <<>>
    /\ obs = [recording |-> FALSE, count |-> 0]
    /\ files = <<>>
    /\ notes = <<>>
    /\ prev = "none"

Next ==
    \/ \E l \in Lines : ProcessLine(l)
    \/ FinishEnd
    \/ MonitorCheck
    \/ MonitorFinishEnd
    \/ \E i \in DOMAIN tasks, up \in BOOLEAN : ProcessStart(i, up)
    \/ \E i \in DOMAIN tasks : MarkRecording(i)
    \/ \E i \in DOMAIN tasks, up \in BOOLEAN : ProcessEnd(i, up)
    \/ \E i \in DOMAIN tasks : ProcessRecordingFile(i)
    \/ \E i \in DOMAIN tasks : RenameStable(i)
    \/ Tick

Spec == Init /\ [][Next]_vars

\* a step of background thread i
TaskStep(i) ==
    \/ \E up \in BOOLEAN : ProcessStart(i, up)
    \/ MarkRecording(i)
    \/ \E up \in BOOLEAN : ProcessEnd(i, up)
    \/ ProcessRecordingFile(i)
    \/ RenameStable(i)

\* Every started thread and every handler past its sleep is scheduled again,
\* and the clock keeps advancing; log lines arrive when the game writes them.
SpecFair ==
    /\ Spec
    /\ WF_vars(FinishEnd)
    /\ WF_vars(MonitorFinishEnd)
    /\ \A i \in 1..MaxThreads : WF_vars(TaskStep(i))
    /\ WF_vars(Tick)

\* SpecFair, and the monitor loop comes round to its check again after every
\* time.sleep(self._check_interval)
SpecMonitor ==
    /\ Spec
    /\ WF_vars(FinishEnd)
    /\ WF_vars(MonitorCheck)
    /\ WF_vars(MonitorFinishEnd)
    /\ \A i \in 1..MaxThreads : WF_vars(TaskStep(i))
    /\ WF_vars(Tick)

\* ------------------------------------- the file policy called directly
\* RecordingProcessor._process_recording_file entered by one end thread after
\* the recorder has stopped and the rename delay has passed, over a recording
\* directory drawn from bounded sets: the recording just written (or none)
\* beside earlier files, among them names the rename may collide with.
FileConfigs ==
    [enabled : {{3}}, RECORD_MPLUS : {TRUE}, DELETE_SHORT_RECORDINGS : BOOLEAN,
     MAX_RENAME_ATTEMPTS : 1..MaxPre,
     DUNGEON_TIMEOUT_SECONDS : {DUNGEON_TIMEOUT_SECONDS}, posix : BOOLEAN]

FileInfos == {BossInfo(1, "Boss A", 3, 2000), DungeonInfo(1, "Halls", 10)}

OldName == FileName(0, "Old", "Mythic", 0)

Directory(info, mtime, rec, pre) ==
    LET names == pre \cup (IF rec THEN {RawName(1)} ELSE {})
    IN  [n \in names |-> IF n = RawName(1) THEN File(mtime, 1)
                         ELSE IF n = OldName THEN File(1, 100)
                         ELSE File(1, 101 + n.attempt)]

InitFile ==
    /\ tail = NoTail
    /\ loops = <<LoopThread>>
    /\ shut = "none"
    /\ cfg \in FileConfigs
    /\ now = 1 + TickStep
    /\ state = EmptyState
    /\ disp = Ready
    /\ mon = [running |-> TRUE, pc |-> "sleep", info |-> NoInfo, duration |-> 0]
    /\ obs = [recording |-> FALSE, count |-> 1]
    /\ notes = <<>>
    /\ prev = "none"
    /\ \E info \in FileInfos, duration \in {0, 2 * TickStep},
          mtime \in {1, 1 + TickStep}, rec \in BOOLEAN :
         \E pre \in SUBSET ({generate_filename(info, k, mtime) : k \in 0..MaxPre}
                            \cup {OldName}) :
            /\ tasks = <<[Task(IF info.of = "boss" THEN "enc_end" ELSE "dun_end",
                               info, duration)
                          EXCEPT !.pc = "delay", !.ops = <<"stop">>]>>
            /\ files = Directory(info, mtime, rec, pre)

NextFile ==
    \/ \E i \in DOMAIN tasks : ProcessRecordingFile(i)
    \/ \E i \in DOMAIN tasks : RenameStable(i)
    \/ Tick

SpecFile == InitFile /\ [][NextFile]_vars

\* ------------------------------------ the timeout callback called directly
\* CombatParser._handle_dungeon_timeout entered on the monitor thread in any
\* state the recorder can be in: no activity, an encounter, or a dungeon run,
\* started at the present or an earlier tick, with the recording flag set or not.
TimeoutStates(t) ==
    LET starts == {u \in {1 + TickStep * k : k \in 0..MaxTicks} : u <= t}
        active == {start_dungeon(EmptyState, 1, LineDungeonName(1), 10, u) :
                       u \in starts}
                  \cup {start_encounter(EmptyState, b, LineBossName(b),
                                        IF b = 1 THEN 3 ELSE 7,
                                        InstanceOf(b), u) :
                            b \in {1, 2}, u \in starts}
    IN  {EmptyState} \cup active
        \cup {start_recording(s, t) : s \in {EmptyState} \cup active}

InitTimeout ==
    /\ tail = NoTail
    /\ loops = <<LoopThread>>
    /\ shut = "none"
    /\ cfg \in Configs
    /\ now \in {1 + TickStep * k : k \in 0..MaxTicks}
    /\ state \in TimeoutStates(now)
    /\ disp = Ready
    /\ mon = [running |-> TRUE, pc |-> "sleep", info |-> NoInfo, duration |-> 0]
    /\ tasks = <<>>
    /\ obs = [recording |-> FALSE, count |-> 0]
    /\ files = <<>>
    /\ notes = <<>>
    /\ prev = "none"

NextTimeout ==
    \/ DungeonTimeout
    \/ MonitorFinishEnd
    \/ Tick

SpecTimeout == InitTimeout /\ [][NextTimeout]_vars

\* ------------------------------------------------ the log tailer alone
\* LogTailer under a LogDirHandler that meets new log files, the recorder
\* left aside: every line read is a call of process_line.
InitTail == Init

NextTail ==
    \/ StartTailing
    \/ StopMonitor
    \/ WriteLine
    \/ \E i \in DOMAIN tail.threads, ends \in BOOLEAN : ReadLine(i, ends)
    \/ \E i \in DOMAIN tail.threads : ReturnLine(i)
    \/ \E i \in DOMAIN tail.threads : ExitTail(i)

SpecTail == InitTail /\ [][NextTail]_vars

\* --------------------------------------------- the recorder with shutdown
NextShutdown ==
    \/ DispatchLine
    \/ FinishEnd
    \/ MonitorCheck
    \/ MonitorFinishEnd
    \/ \E i \in DOMAIN tasks, up \in BOOLEAN : ProcessStart(i, up)
    \/ \E i \in DOMAIN tasks : MarkRecording(i)
    \/ \E i \in DOMAIN tasks, up \in BOOLEAN : ProcessEnd(i, up)
    \/ \E i \in DOMAIN tasks : ProcessRecordingFile(i)
    \/ \E i \in DOMAIN tasks : RenameStable(i)
    \/ Tick
    \/ ShutdownMain
    \/ ShutdownRecorder

SpecShutdown == Init /\ [][NextShutdown]_vars

\* ------------------------------- DungeonMonitor started and stopped at will
\* DungeonMonitor.__init__, then any calls of start() and stop(), in any
\* state the recorder can be in
InitLoops ==
    /\ tail = NoTail
    /\ shut = "none"
    /\ cfg \in Configs
    /\ now \in {1 + TickStep * k : k \in 0..MaxTicks}
    /\ state \in TimeoutStates(now)
    /\ disp = Ready
    /\ mon = [running |-> FALSE, pc |-> "sleep", info |-> NoInfo, duration |-> 0]
    /\ loops = <<>>
    /\ tasks = <<>>
    /\ obs = [recording |-> FALSE, count |-> 0]
    /\ files = <<>>
    /\ notes = <<>>
    /\ prev = "none"

NextLoops ==
    \/ MonitorStart
    \/ \E exited \in SUBSET Live : MonitorStop(exited)
    \/ \E i \in DOMAIN loops, raises \in {"none", "check", "callback"} :
          LoopCheck(i, raises)
    \/ \E i \in DOMAIN loops : LoopExit(i)
    \/ Tick

SpecLoops == InitLoops /\ [][NextLoops]_vars

\* ------------------------------------ the end threads of a run ended twice
\* The recorder after the timeout callback and a CHALLENGE_MODE_END line have
\* both ended one dungeon run that lasted TickStep seconds: both handlers have
\* returned, each has started its end thread, the recorder still records.
\* The clock is read from that moment on.
EndedTwice ==
    LET run == DungeonInfo(1, LineDungeonName(1), 10)
    IN  <<[Task("dun_start", run, 0) EXCEPT !.pc = "mark", !.ops = <<"start">>,
                                            !.result = TRUE],
          Task("dun_end", run, TickStep),
          Task("dun_end", run, TickStep)>>

InitEnds ==
    /\ tail = NoTail
    /\ loops = <<LoopThread>>
    /\ shut = "none"
    /\ cfg \in Configs
    /\ now = 1
    /\ state = EmptyState
    /\ disp = Ready
    /\ mon = [running |-> TRUE, pc |-> "sleep", info |-> NoInfo, duration |-> 0]
    /\ tasks = EndedTwice
    /\ obs = [recording |-> TRUE, count |-> 1]
    /\ files = (RawName(1) :> File(1, 1))
    /\ notes = <<>>
    /\ prev = "end"

NextEnds ==
    \/ \E i \in DOMAIN tasks : MarkRecording(i)
    \/ \E i \in DOMAIN tasks, up \in BOOLEAN : ProcessEnd(i, up)
    \/ \E i \in DOMAIN tasks : ProcessRecordingFile(i)
    \/ \E i \in DOMAIN tasks : RenameStable(i)
    \/ Tick

SpecEnds == InitEnds /\ [][NextEnds]_vars

\* ------------------------- the recorder with the END handlers step by step
NextSplit ==
    \/ \E l \in Lines : ProcessLine(l)
    \/ StartEndThread
    \/ ResetEnd
    \/ MonitorCheck
    \/ MonitorStartEndThread
    \/ MonitorResetEnd
    \/ \E i \in DOMAIN tasks, up \in BOOLEAN : ProcessStart(i, up)
    \/ \E i \in DOMAIN tasks : MarkRecording(i)
    \/ \E i \in DOMAIN tasks, up \in BOOLEAN : ProcessEnd(i, up)
    \/ \E i \in DOMAIN tasks : ProcessRecordingFile(i)
    \/ \E i \in DOMAIN tasks : RenameStable(i)
    \/ Tick

SpecSplit == Init /\ [][NextSplit]_vars

\* ====================================================== properties
EncounterFields(s) ==
    <<s.encounter_active, s.boss_id, s.boss_name, s.difficulty_id,
      s.instance_id, s.encounter_start_time>>

DungeonIdentity(s) ==
    <<s.dungeon_active, s.dungeon_id, s.dungeon_name, s.dungeon_level,
      s.dungeon_start_time>>

Last(q) == q[Len(q)]

\* C1: State is never both Encounter-active and Dungeon-active: at most one of
\* encounter_active and dungeon_active is true in every reachable state.
C1_Exclusive == ~(state.encounter_active /\ state.dungeon_active)

\* C2: an ENCOUNTER_START processed while a dungeon is active changes neither
\* State's encounter fields, nor its dungeon identity fields, nor its recording
\* flag, and starts no recorder-start task.
C2_StartIgnoredInDungeon ==
    [][\A l \in Lines :
          (l.kind = "ENCOUNTER_START" /\ state.dungeon_active /\ ProcessLine(l))
          => /\ EncounterFields(state') = EncounterFields(state)
             /\ DungeonIdentity(state') = DungeonIdentity(state)
             /\ state'.recording = state.recording
             /\ tasks' = tasks]_vars

\* C3: an ENCOUNTER_START processed while an encounter is active leaves
\* boss_id, boss_name, difficulty_id and encounter_start_time as they were,
\* emits no notification and starts no task.
C3_SecondStartIgnored ==
    [][\A l \in Lines :
          (l.kind = "ENCOUNTER_START" /\ state.encounter_active /\ ProcessLine(l))
          => /\ state'.boss_id = state.boss_id
             /\ state'.boss_name = state.boss_name
             /\ state'.difficulty_id = state.difficulty_id
             /\ state'.encounter_start_time = state.encounter_start_time
             /\ notes' = notes
             /\ tasks' = tasks]_vars

\* C4: a parsable ENCOUNTER_START of an enabled difficulty processed in the
\* Idle state emits exactly one ENCOUNTER_START notification; the
\* ENCOUNTER_END line that follows it emits exactly one ENCOUNTER_END
\* notification right behind it; the handler emits nothing more before it
\* returns, and when it returns State is Idle with every field cleared.
C4_StartThenEnd ==
    [][/\ \A l \in Lines :
             (ProcessLine(l) /\ Prev(l, state) = "start")
             => /\ Len(notes') = Len(notes) + 1
                /\ Last(notes').type = "ENCOUNTER_START"
                /\ state'.encounter_active
       /\ \A l \in Lines :
             (prev = "start" /\ l.kind = "ENCOUNTER_END" /\ ProcessLine(l))
             => /\ Len(notes') = Len(notes) + 1
                /\ Last(notes').type = "ENCOUNTER_END"
                /\ Last(notes).type = "ENCOUNTER_START"
                /\ Last(notes').name = Last(notes).name
                /\ disp'.pc = "enc_end"
       /\ (disp.pc = "enc_end" /\ FinishEnd)
             => /\ notes' = notes
                /\ state' = EmptyState
                /\ Idle(state')
                /\ ~is_recording(state')]_vars

\* an encounter started from Idle and ended by the next line, its END handler
\* returned, the start thread having marked the recording meanwhile
C4_Witness ==
    /\ Len(notes) = 2
    /\ notes[1].type = "ENCOUNTER_START"
    /\ notes[2].type = "ENCOUNTER_END"
    /\ disp.pc = "ready"
    /\ state = EmptyState
    /\ Len(tasks) = 2
    /\ tasks[1].ops = <<"start", "mark">>
    /\ tasks[2].kind = "enc_end"

\* --------------------------------------------------------------------
Count(q, x) == Len(SelectSeq(q, LAMBDA e : e = x))

Kinds(k) == {i \in DOMAIN tasks : tasks[i].kind = k}

NotesOf(type) == {k \in DOMAIN notes : notes[k].type = type}

\* thread i is the start thread of an encounter of an enabled difficulty and
\* has not run yet
EncounterStartDue(i) ==
    /\ i \in DOMAIN tasks
    /\ tasks[i].kind = "enc_start"
    /\ tasks[i].pc = "begin"
    /\ is_difficulty_enabled(cfg, tasks[i].info.difficulty_id)

\* thread i has called the recorder's start (stop) as its first call
Called(i, op) ==
    /\ i \in DOMAIN tasks
    /\ Len(tasks[i].ops) >= 1
    /\ tasks[i].ops[1] = op

\* C5: after an ENCOUNTER_START with an enabled difficulty is accepted from
\* Idle (the first thread ever started is its start thread), once the recorder
\* start has succeeded State.is_recording eventually becomes true; stated for
\* the runs in which nothing but this encounter's START and END is notified.
C5_StartLeadsToRecording ==
    (Len(tasks) >= 1 /\ tasks[1].kind = "enc_start" /\ tasks[1].pc = "mark")
        ~> (is_recording(state) \/ Len(notes) > 2)

\* C5, amended: the start thread of an accepted ENCOUNTER_START with an enabled
\* difficulty invokes the recorder start exactly once, eventually under fair
\* scheduling; if the call succeeds the thread eventually sets State's
\* recording flag, and State.is_recording is true after that step exactly when
\* an encounter or dungeon is active at that moment: it stays false when the
\* encounter has ended before the start thread completed.
C5_StartOnceThenFlag ==
    /\ [][/\ \A i \in DOMAIN tasks, up \in BOOLEAN :
                (EncounterStartDue(i) /\ ProcessStart(i, up))
                => /\ tasks'[i].ops = <<"start">>
                   /\ tasks'[i].pc = IF up THEN "mark" ELSE "done"
          /\ \A i \in DOMAIN tasks :
                (tasks[i].kind = "enc_start" /\ tasks[i].pc # "begin")
                => Count(tasks'[i].ops, "start") = Count(tasks[i].ops, "start")
          /\ \A i \in DOMAIN tasks :
                MarkRecording(i)
                => /\ state'.recording
                   /\ is_recording(state') <=> ~Idle(state)
                   /\ tasks'[i].pc = "done"]_vars
    /\ \A i \in 1..MaxThreads : EncounterStartDue(i) ~> Called(i, "start")
    /\ \A i \in 1..MaxThreads :
          (i \in DOMAIN tasks /\ tasks[i].kind = "enc_start" /\ tasks[i].pc = "mark")
             ~> (/\ i \in DOMAIN tasks
                 /\ tasks[i].pc = "done"
                 /\ tasks[i].ops = <<"start", "mark">>)

\* the start thread of an encounter begun from Idle has started the recorder
\* and set the flag while the encounter is still active
C5_Witness ==
    /\ Len(tasks) >= 1
    /\ tasks[1].kind = "enc_start"
    /\ tasks[1].ops = <<"start", "mark">>
    /\ state.encounter_active
    /\ is_recording(state)

\* the start thread set the flag after its encounter had ended
C5_WitnessEnded ==
    /\ Len(tasks) >= 2
    /\ tasks[1].kind = "enc_start"
    /\ tasks[1].ops = <<"start", "mark">>
    /\ Idle(state)
    /\ state.recording

\* C6: every ENCOUNTER_END processed while an encounter is active emits one
\* END notification and no recorder call yet; when the handler returns State
\* is reset and exactly one end thread exists for that END; for an enabled
\* difficulty that thread invokes the recorder stop exactly once, as its first
\* call, eventually under fair scheduling.
C6_EndLeadsToOneStop ==
    /\ [][/\ \A l \in Lines :
                (l.kind = "ENCOUNTER_END" /\ state.encounter_active /\ ProcessLine(l))
                => /\ Len(notes') = Len(notes) + 1
                   /\ Last(notes').type = "ENCOUNTER_END"
                   /\ disp'.pc = "enc_end"
                   /\ disp'.info.difficulty_id = state.difficulty_id
                   /\ tasks' = tasks
          /\ (disp.pc = "enc_end" /\ FinishEnd)
                => /\ state' = EmptyState
                   /\ tasks' = Append(tasks, Task("enc_end", disp.info, disp.duration))
          /\ \A i \in DOMAIN tasks, up \in BOOLEAN :
                (tasks[i].kind = "enc_end" /\ ProcessEnd(i, up)
                 /\ is_difficulty_enabled(cfg, tasks[i].info.difficulty_id))
                => tasks'[i].ops = <<"stop">>]_vars
    /\ [](/\ \A i \in DOMAIN tasks :
                /\ Count(tasks[i].ops, "stop") <= 1
                /\ Count(tasks[i].ops, "stop") = 1
                      => tasks[i].kind \in {"enc_end", "dun_end"}
          /\ Cardinality(Kinds("enc_end")) + (IF disp.pc = "enc_end" THEN 1 ELSE 0)
                = Cardinality(NotesOf("ENCOUNTER_END")))
    /\ (disp.pc = "enc_end") ~> (disp.pc = "ready")
    /\ \A i \in 1..MaxThreads :
          (/\ i \in DOMAIN tasks
           /\ tasks[i].kind = "enc_end"
           /\ tasks[i].pc = "begin"
           /\ is_difficulty_enabled(cfg, tasks[i].info.difficulty_id))
             ~> Called(i, "stop")

\* an encounter has ended: END emitted last, State reset, the end thread has
\* called the recorder's stop
C6_Witness ==
    /\ notes # <<>>
    /\ Last(notes).type = "ENCOUNTER_END"
    /\ state = EmptyState
    /\ \E i \in Kinds("enc_end") : Called(i, "stop")

\* the notifications so far are ENCOUNTER_START and ENCOUNTER_END in turn,
\* ending with a START: every encounter was started from Idle, no dungeon was
\* started, and the last encounter has not ended
StartedFromIdle ==
    /\ notes # <<>>
    /\ \A k \in DOMAIN notes :
          notes[k].type = IF k % 2 = 1 THEN "ENCOUNTER_START" ELSE "ENCOUNTER_END"
    /\ Last(notes).type = "ENCOUNTER_START"

\* C7: while an encounter of a disabled difficulty started from Idle is
\* active, State.is_recording is false.
C7_DisabledNeverRecording ==
    (/\ state.encounter_active
     /\ ~is_difficulty_enabled(cfg, state.difficulty_id)
     /\ StartedFromIdle)
    => ~is_recording(state)

\* C8: the start and end threads of a dungeon make no recorder or file call
\* when the Mythic+ flag is off, and call the recorder's start (stop) first
\* when it is on, whatever the per-difficulty flags; a parsable
\* CHALLENGE_MODE_START met without an active dungeon makes the dungeon active
\* and starts its start thread in either case.
C8_MplusGate ==
    /\ [](\A i \in Kinds("dun_start") \cup Kinds("dun_end") :
             IF ~cfg.RECORD_MPLUS
             THEN tasks[i].ops = <<>>
             ELSE tasks[i].pc # "begin"
                  => Called(i, IF tasks[i].kind = "dun_start" THEN "start" ELSE "stop"))
    /\ [][\A l \in Lines :
             (l.kind = "CHALLENGE_MODE_START" /\ l.ok /\ ~state.dungeon_active
              /\ ProcessLine(l))
             => /\ state'.dungeon_active
                /\ Len(tasks') = Len(tasks) + 1
                /\ Last(tasks').kind = "dun_start"]_vars

\* a dungeon run started and ended with the Mythic+ flag off: both threads
\* returned without a call
C8_Witness ==
    /\ ~cfg.RECORD_MPLUS
    /\ \E i \in Kinds("dun_start") : tasks[i].pc = "done"
    /\ \E i \in Kinds("dun_end") : tasks[i].pc = "done"

\* --------------------------------------------------------------------
Without(fs, path) == [n \in DOMAIN fs \ {path} |-> fs[n]]

\* C9: when the end thread of an activity whose captured duration is below the
\* minimum reaches the file policy (the recorder stopped, no file held open),
\* it returns without attempting a rename;
\* with delete_short_recordings true the file located as the latest recording
\* is removed and every other file is as before (nothing changes when the
\* directory holds no recording); with the flag false no file is deleted,
\* renamed or changed.
C9_ShortPolicy ==
    /\ [][\A i \in DOMAIN tasks :
             (tasks[i].duration < MIN_RECORDING_DURATION /\ ProcessRecordingFile(i))
             => /\ tasks'[i].pc = "done"
                /\ Count(tasks'[i].ops, "rename") = 0
                /\ IF cfg.DELETE_SHORT_RECORDINGS /\ DOMAIN files # {}
                   THEN \E path \in find_latest_recording(files) :
                           /\ files' = Without(files, path)
                           /\ Count(tasks'[i].ops, "delete") = 1
                   ELSE /\ files' = files
                        /\ Count(tasks'[i].ops, "delete") = 0]_vars
    /\ [](\A i \in DOMAIN tasks :
             tasks[i].pc = "stable" => tasks[i].duration >= MIN_RECORDING_DURATION)

\* a short recording was located and deleted beside earlier files, which remain
C9_Witness ==
    /\ cfg.DELETE_SHORT_RECORDINGS
    /\ tasks[1].pc = "done"
    /\ tasks[1].ops = <<"stop", "find", "delete", "saved">>
    /\ ~Exists(files, RawName(1))
    /\ Exists(files, OldName)

\* a short recording was kept: the flag is off and the directory is as it was
C9_WitnessKept ==
    /\ ~cfg.DELETE_SHORT_RECORDINGS
    /\ tasks[1].pc = "done"
    /\ tasks[1].ops = <<"stop", "saved">>
    /\ Exists(files, RawName(1))

\* C10: the rename of the recording the recorder wrote never overwrites or
\* removes a file that already exists: every file other than the recording
\* being renamed keeps its name and its content.
C10_NeverOverwrites ==
    [][\A i \in DOMAIN tasks :
          (tasks[i].path = RawName(1) /\ RenameStable(i))
          => \A n \in DOMAIN files \ {tasks[i].path} :
                /\ Exists(files', n)
                /\ files'[n] = files[n]]_vars

\* --------------------------------------------------------------------
\* the base target name of recording path and every _attempt name up to
\* max_rename_attempts are taken
Exhausted(fs, c, path, info) ==
    /\ Exists(fs, path)
    /\ \A k \in 0..c.MAX_RENAME_ATTEMPTS :
          Exists(fs, generate_filename(info, k, fs[path].mtime))

\* C11: when the base target name and every _attempt name are taken, the
\* rename of the recording the recorder wrote leaves that recording under its
\* own name and leaves every file of the directory as it was.
C11_ExhaustedKeepsSource ==
    [][\A i \in DOMAIN tasks :
          (/\ tasks[i].path = RawName(1)
           /\ Exhausted(files, cfg, tasks[i].path, tasks[i].info)
           /\ RenameStable(i))
          => /\ files' = files
             /\ Exists(files', RawName(1))]_vars

\* C12: in the file policy of a long-enough activity, when no video file is
\* found, or the located file is gone or has changed size over the stability
\* interval, the directory is left as it was, no rename and no delete is
\* attempted, and the thread returns with the result False.
C12_AbortOnMissingOrUnstable ==
    [][\A i \in DOMAIN tasks :
          (\/ /\ tasks[i].duration >= MIN_RECORDING_DURATION
              /\ find_latest_recording(files) = {}
              /\ ProcessRecordingFile(i)
           \/ /\ ~(Exists(files, tasks[i].path)
                   /\ Size(files, tasks[i].path) = tasks[i].size)
              /\ RenameStable(i))
          => /\ files' = files
             /\ tasks'[i].pc = "done"
             /\ ~tasks'[i].result
             /\ Count(tasks'[i].ops, "rename") = 0
             /\ Count(tasks'[i].ops, "delete") = 0
             /\ Count(tasks'[i].ops, "saved") = 0]_vars

\* an end thread found the file the recorder was still writing, saw it change
\* and returned False with the file in place
C12_Witness ==
    \E i \in DOMAIN tasks :
       /\ tasks[i].pc = "done"
       /\ tasks[i].ops = <<"stop", "find", "validate">>
       /\ ~tasks[i].result
       /\ files # <<>>

\* an end thread of a long-enough activity found no video file
C12_WitnessNoFile ==
    \E i \in DOMAIN tasks :
       /\ tasks[i].pc = "done"
       /\ tasks[i].ops = <<"stop", "find">>
       /\ ~tasks[i].result
       /\ files = <<>>

\* C13: when the END handler of the dispatch path returns, State equals the
\* initial empty state and the dispatch path is free, however far the
\* background threads have come; a parsable ENCOUNTER_START read as the very
\* next line is accepted: it becomes the active encounter, is notified and
\* gets its start thread.
C13_ResetBeforeReturn ==
    [][/\ FinishEnd => (state' = EmptyState /\ disp' = Ready)
       /\ \A l \in Lines :
             (prev = "end" /\ l.kind = "ENCOUNTER_START" /\ l.ok /\ ProcessLine(l))
             => /\ state'.encounter_active
                /\ state'.boss_id = l.id
                /\ state'.difficulty_id = l.difficulty_id
                /\ Len(notes') = Len(notes) + 1
                /\ Last(notes').type = "ENCOUNTER_START"
                /\ Len(tasks') = Len(tasks) + 1
                /\ Last(tasks').kind = "enc_start"]_vars

\* an encounter ended and the next one was accepted while the end thread of
\* the first has not run yet
C13_Witness ==
    /\ Len(notes) = 3
    /\ notes[2].type = "ENCOUNTER_END"
    /\ notes[3].type = "ENCOUNTER_START"
    /\ state.encounter_active
    /\ Len(tasks) = 3
    /\ tasks[2].kind = "enc_end"
    /\ tasks[2].pc = "begin"
    /\ tasks[3].kind = "enc_start"

\* --------------------------------------------------------------------
\* threads that have not returned yet, by the call they wait in or for
PendingAt(pcs) == {i \in DOMAIN tasks : tasks[i].pc \in pcs}

\* C14: whenever the dispatch path is between two lines, every line can be
\* processed at once, whatever the background threads are doing (recorder
\* start or stop due, rename delay, stability sleep); and a step of the
\* dispatch path itself makes no recorder or file call.
C14_DispatchNeverWaitsForThreads ==
    /\ [](disp.pc = "ready" /\ Room => \A l \in Lines : ENABLED ProcessLine(l))
    /\ [][((\E l \in Lines : ProcessLine(l)) \/ FinishEnd)
            => /\ obs' = obs
               /\ files' = files
               /\ \A i \in DOMAIN tasks : tasks'[i] = tasks[i]]_vars

\* two more lines were dispatched, the second starting a third thread, while
\* the first activity's start thread had not yet called the recorder and
\* its end thread had not yet stopped it
C14_Witness ==
    /\ disp.pc = "ready"
    /\ Len(tasks) = 3
    /\ PendingAt({"begin"}) = {1, 2, 3}
    /\ tasks[1].kind = "enc_start"
    /\ tasks[2].kind = "enc_end"
    /\ tasks[3].kind = "dun_start"

\* C15: once an END handler has emitted its END notification, a line can be
\* processed before the handler's grace sleep has elapsed.
C15_DispatchDuringGrace ==
    (disp.pc \in {"enc_end", "dun_end"} /\ Room)
        => \E l \in Lines : ENABLED ProcessLine(l)

\* --------------------------------------------------------------------
\* the dungeon has been without a processed line for longer than the timeout
IdleBeyondTimeout ==
    /\ state.dungeon_active
    /\ now - state.last_activity_time > cfg.DUNGEON_TIMEOUT_SECONDS

\* the monitor's check calls on_timeout in this step
TimeoutInvoked == MonitorCheck /\ mon.pc = "sleep" /\ mon'.pc = "dun_end"

\* positions of the END notifications the timeout handler has emitted
TimeoutNotes ==
    {k \in DOMAIN notes :
        notes[k].type = "DUNGEON_END" /\ notes[k].reason = "timeout"}

\* C16: a check of the idle monitor calls the timeout callback if and only if
\* a dungeon is active and the time since last_activity_time exceeds the
\* configured timeout.
C16_CallbackIffIdle ==
    [][MonitorCheck => (TimeoutInvoked <=> IdleBeyondTimeout)]_vars

\* the callback has been called for a dungeon idle beyond the timeout
C16_Witness ==
    /\ mon.pc = "dun_end"
    /\ IdleBeyondTimeout
    /\ TimeoutNotes # {}

\* C17: a dungeon run left idle beyond the timeout under a running monitor
\* gets the timeout callback, unless a line ends the idleness first; and the
\* callback is called once per run: never while an earlier call for the same
\* run is in progress, and between two timeout notifications there is a
\* DUNGEON_START.
C17_TimeoutOncePerRun ==
    /\ (IdleBeyondTimeout /\ mon.running /\ mon.pc = "sleep" /\ Room)
          ~> (~IdleBeyondTimeout \/ mon.pc = "dun_end")
    /\ [][TimeoutInvoked => Len(notes') = Len(notes) + 1]_vars
    /\ [](\A j, k \in TimeoutNotes :
             j < k => \E m \in j + 1 .. k - 1 : notes[m].type = "DUNGEON_START")

\* the callback has ended an idle run, its thread is started and the state is
\* reset, so that the later checks find no dungeon
C17_Witness ==
    /\ TimeoutNotes = {2}
    /\ Len(notes) = 2
    /\ mon.pc = "sleep"
    /\ state = EmptyState
    /\ Kinds("dun_end") = {2}

\* --------------------------------------------------------------------
\* C18: a dungeon run is ended at most once, also when the timeout callback
\* on the monitor thread meets a CHALLENGE_MODE_END or ZONE_CHANGE on the
\* dispatch path: between two DUNGEON_END notifications there is a
\* DUNGEON_START.
C18_EndedAtMostOnce ==
    \A j, k \in NotesOf("DUNGEON_END") :
        j < k => \E m \in j + 1 .. k - 1 : notes[m].type = "DUNGEON_START"

\* --------------------------------------------------------------------
\* the dispatch path has just emitted a DUNGEON_END for the given reason
EndedFor(reason) ==
    /\ Len(notes') = Len(notes) + 1
    /\ Last(notes').type = "DUNGEON_END"
    /\ Last(notes').reason = reason
    /\ disp'.pc = "dun_end"

\* the step changes no activity field of State and emits no END
NoEnd ==
    /\ EncounterFields(state') = EncounterFields(state)
    /\ DungeonIdentity(state') = DungeonIdentity(state)
    /\ state'.recording = state.recording
    /\ notes' = notes
    /\ disp' = disp
    /\ tasks' = tasks

\* C19: a ZONE_CHANGE naming a zone, processed while a dungeon is active, ends
\* the dungeon with reason zone_change when the zone name does not contain
\* the dungeon's name ("City" for "Halls"), and changes no activity field and
\* emits no END when it does, whatever the case ("halls of stone"); with no
\* dungeon active a ZONE_CHANGE changes nothing either.
C19_ZoneChange ==
    [][\A l \in Lines :
          (l.kind = "ZONE_CHANGE" /\ l.ok /\ ProcessLine(l))
          => /\ (state.dungeon_active /\ state.dungeon_name = "Halls"
                    /\ l.zone = "City")
                   => EndedFor("zone_change")
             /\ (state.dungeon_active /\ state.dungeon_name = "Halls"
                    /\ l.zone = "halls of stone")
                   => NoEnd
             /\ ~state.dungeon_active => NoEnd]_vars

\* a zone change has ended a dungeon
C19_Witness ==
    /\ disp.pc = "dun_end"
    /\ state.dungeon_active
    /\ notes # <<>>
    /\ Last(notes).type = "DUNGEON_END"
    /\ Last(notes).reason = "zone_change"

\* C20: the timeout callback entered while a dungeon is active emits one
\* DUNGEON_END for that dungeon with reason timeout and success flag false,
\* and then starts the end thread and resets the state; entered while no
\* dungeon is active it changes nothing and emits nothing.
C20_TimeoutCallback ==
    [][/\ DungeonTimeout
          => IF state.dungeon_active
             THEN /\ Len(notes') = Len(notes) + 1
                  /\ Last(notes').type = "DUNGEON_END"
                  /\ Last(notes').reason = "timeout"
                  /\ Last(notes').flag = FALSE
                  /\ Last(notes').name = state.dungeon_name
                  /\ mon'.pc = "dun_end"
             ELSE UNCHANGED vars
       /\ MonitorFinishEnd
          => /\ state' = EmptyState
             /\ Len(tasks') = Len(tasks) + 1
             /\ Last(tasks').kind = "dun_end"]_vars

\* the callback has ended an active dungeon
C20_Witness ==
    /\ mon.pc = "sleep"
    /\ state = EmptyState
    /\ Len(notes) = 1
    /\ notes[1].reason = "timeout"
    /\ ~notes[1].flag
    /\ Kinds("dun_end") = {1}

\* --------------------------------------------------------------------
\* thread i asked the recorder to start, was refused and has returned
FailedStart(i) ==
    /\ i \in DOMAIN tasks
    /\ tasks[i].kind \in {"enc_start", "dun_start"}
    /\ tasks[i].pc = "done"
    /\ tasks[i].ops = <<"start">>
    /\ ~tasks[i].result

Malformed(raw) ==
    \/ ~raw.sep
    \/ raw.fields = <<>>
    \/ raw.fields[1] = ""
    \/ /\ Upper(raw.fields[1]) = "ENCOUNTER_START"
       /\ \/ Len(raw.fields) < 6
          \/ raw.fields[2] \notin Numerals
          \/ raw.fields[6] \notin Numerals

\* C22: processing a malformed line changes no activity or recording field of
\* State, emits no notification, starts no background thread and makes no
\* recorder call.
C22_MalformedDropped ==
    [][\A raw \in RawLines :
          (Malformed(raw) /\ ProcessLine(CombatEvent(raw)))
          => /\ NoEnd
             /\ obs' = obs
             /\ files' = files]_vars

\* a decoded line has been dropped during a dungeon run: it refreshed the
\* idle time and nothing else
C22_Witness ==
    /\ prev = "other"
    /\ state.dungeon_active
    /\ ~state.encounter_active
    /\ state.last_activity_time > state.dungeon_start_time
    /\ Len(notes) = 1
    /\ Len(tasks) = 1
    /\ disp = Ready

\* --------------------------------------------------------------------
\* C23: at any time at most one tail thread is inside process_line, also
\* after start_tailing has switched to a new log while the previous tail
\* thread was inside process_line.
C23_SingleDispatch ==
    Cardinality({i \in DOMAIN tail.threads : InLine(tail.threads[i])}) <= 1

\* C24: once a shutdown path has run, the idle monitor is stopped.
C24_ShutdownStopsMonitor == shut # "none" => ~mon.running

\* --------------------------------------------------------------------
\* C25: start_encounter and start_dungeon called on a State that already has
\* an active encounter or dungeon leave every field as it was.
C25_StartsAreNoOpsWhenActive ==
    (state.encounter_active \/ state.dungeon_active)
    => /\ \A l \in Lines :
             (l.kind = "ENCOUNTER_START" /\ l.ok)
             => start_encounter(state, l.id, LineBossName(l.id), l.difficulty_id,
                                InstanceOf(l.id), now) = state
       /\ \A l \in Lines :
             (l.kind = "CHALLENGE_MODE_START" /\ l.ok)
             => start_dungeon(state, l.id, LineDungeonName(l.id), l.level, now)
                   = state

\* C26: a CHALLENGE_MODE_START processed while an encounter is active leaves
\* dungeon_active false and the encounter fields unchanged, emits no
\* DUNGEON_START and starts no recorder-start thread.
C26_DungeonStartIgnoredInEncounter ==
    [][\A l \in Lines :
          (l.kind = "CHALLENGE_MODE_START" /\ state.encounter_active
             /\ ~state.dungeon_active /\ ProcessLine(l))
          => /\ ~state'.dungeon_active
             /\ EncounterFields(state') = EncounterFields(state)
             /\ notes' = notes
             /\ tasks' = tasks]_vars

\* --------------------------------------------------------------------
\* C27: while a dungeon is active every decoded line, of whatever kind, leaves
\* last_activity_time at the current time, and an undecodable line leaves
\* State as it was; so the timeout callback is only ever called when more
\* than the timeout has passed since the last decoded line.
C27_ActivityRefreshed ==
    [][/\ \A l \in Lines :
             (state.dungeon_active /\ ProcessLine(l))
             => IF l.kind = ""
                THEN state' = state
                ELSE state'.last_activity_time = now
       /\ TimeoutInvoked
             => now - state.last_activity_time > cfg.DUNGEON_TIMEOUT_SECONDS]_vars

\* a line decoded later in a dungeon run has renewed the idle time, and the
\* monitor has not timed the run out
C27_Witness ==
    /\ state.dungeon_active
    /\ now > state.dungeon_start_time
    /\ state.last_activity_time = now
    /\ mon.pc = "sleep"
    /\ TimeoutNotes = {}

\* --------------------------------------------------------------------
\* C28: State is changed only by steps of the line-dispatch path (a line
\* being processed, an END handler returning), never by a step of a
\* background thread or of the idle-monitor thread.
C28_OnlyDispatchChangesState ==
    [][state' # state => ((\E l \in Lines : ProcessLine(l)) \/ FinishEnd)]_vars

\* C30: the recording flag is true only while an activity is active: no
\* start thread sets it after the reset that ended its activity.
C30_NoStaleRecordingFlag == state.recording => ~Idle(state)

\* --------------------------------------------------------------------
\* the handler that started end thread i has not reset State yet
NotYetReset(i) ==
    \/ disp.pc = "reset" /\ disp.thread = i
    \/ mon.pc = "reset" /\ mon.thread = i

\* C29: an end thread takes its first step (the gate and the recorder stop)
\* only after the handler that started it has reset State.
C29_ResetBeforeEndThread ==
    [][\A i \in DOMAIN tasks, up \in BOOLEAN :
          ProcessEnd(i, up) => ~NotYetReset(i)]_vars

\* --------------------------------------------------------------------
\* the calls of the file-processing policy
FileOps == {"find", "validate", "rename", "delete"}

\* C31: in an end thread the recorder stop is the first call, the rename
\* delay follows it, and the file policy runs only from the delay on; when
\* the stop reports failure the thread returns at once: it locates, deletes
\* and renames nothing.
C31_StopDelayThenPolicy ==
    /\ [](\A i \in DOMAIN tasks :
            tasks[i].kind \in {"enc_end", "dun_end"}
            => /\ tasks[i].pc \in {"delay", "stable"} => tasks[i].ops[1] = "stop"
               /\ \A k \in DOMAIN tasks[i].ops :
                     /\ tasks[i].ops[k] \in FileOps => k > 1 /\ tasks[i].ops[1] = "stop"
                     /\ tasks[i].ops[k] = "stop" => k = 1)
    /\ [][\A i \in DOMAIN tasks :
             /\ (Gate(cfg, tasks[i]) /\ ProcessEnd(i, FALSE))
                => /\ files' = files
                   /\ tasks'[i].pc = "done"
                   /\ tasks'[i].ops = <<"stop">>
                   /\ ~tasks'[i].result
             /\ (Gate(cfg, tasks[i]) /\ ProcessEnd(i, TRUE))
                => /\ files' = files
                   /\ tasks'[i].pc = "delay"
             /\ (ProcessRecordingFile(i) \/ RenameStable(i))
                => tasks[i].ops[1] = "stop"]_vars

\* an end thread whose recorder stop failed has returned; the recording it
\* would have processed is still in the directory
C31_Witness ==
    \E i \in DOMAIN tasks :
        /\ tasks[i].kind = "enc_end"
        /\ tasks[i].pc = "done"
        /\ tasks[i].ops = <<"stop">>
        /\ ~tasks[i].result
        /\ Exists(files, RawName(1))

\* a pass of the loop of thread i ends in its except clause
Raised(i) == \E r \in {"check", "callback"} : LoopCheck(i, r)

\* C32: while the monitor is running, a check or a timeout callback that
\* raises does not end the monitor loop: the thread is left sleeping, it
\* leaves the loop only when the running flag is lowered, and a later pass
\* that finds the dungeon idle still calls the timeout callback.
C32_ErrorKeepsLoop ==
    /\ [][\A i \in DOMAIN loops :
             /\ Raised(i) => loops'[i].pc = "sleep" /\ mon'.running
             /\ (loops[i].pc = "sleep" /\ loops'[i].pc = "done") => ~mon'.running
             /\ (/\ loops[i].errors # <<>>
                 /\ LoopCheck(i, "none")
                 /\ IdleBeyondTimeout)
                => /\ Len(notes') = Len(notes) + 1
                   /\ Len(notes') \in TimeoutNotes'
                   /\ ~state'.dungeon_active]_vars
    /\ [](\A i \in DOMAIN loops :
             (loops[i].errors # <<>> /\ loops[i].pc = "sleep" /\ mon.running /\ Room)
             => ENABLED LoopCheck(i, "none"))

\* a thread whose callback raised has later ended the idle dungeon run
C32_Witness ==
    \E i \in DOMAIN loops :
        /\ loops[i].errors = <<"callback">>
        /\ loops[i].pc = "sleep"
        /\ mon.running
        /\ Len(loops) = 1
        /\ TimeoutNotes # {}
        /\ ~state.dungeon_active

\* C33: the handles of completed background threads do not accumulate in
\* _active_threads between startup and shutdown: the list never holds more
\* than one handle of a thread that has finished.
C33_HandlesDoNotAccumulate ==
    Cardinality({i \in DOMAIN tasks : tasks[i].pc = "done"}) <= 1

\* the end threads of a kind that called on_recording_saved
Saved(kind) == {i \in Kinds(kind) : Count(tasks[i].ops, "saved") > 0}

\* thread i returns without a result: the stop failed, no file was found, the
\* file was unstable, the rename or delete failed, or the gate was closed
Aborted(i) == tasks[i].pc = "done" /\ ~tasks[i].result

\* C34: the saved-file notification is sent at most once per ended activity,
\* as the last act of that activity's end thread, after its recorder stop and
\* its file processing; it is not sent by an end thread that aborted.
C34_SavedOncePerActivity ==
    /\ \A i \in Kinds("enc_end") \cup Kinds("dun_end") :
          /\ Count(tasks[i].ops, "saved") <= 1
          /\ i \in Saved(tasks[i].kind)
             => /\ tasks[i].pc = "done"
                /\ tasks[i].result
                /\ tasks[i].ops[1] = "stop"
                /\ Last(tasks[i].ops) = "saved"
          /\ Aborted(i) => Count(tasks[i].ops, "saved") = 0
    /\ Cardinality(Saved("dun_end")) <= Cardinality(Kinds("dun_start"))
    /\ Cardinality(Saved("enc_end")) <= Cardinality(Kinds("enc_start"))

\* start thread j has called the recorder's start and the call succeeded
StartedOk(j) ==
    /\ tasks[j].kind \in {"enc_start", "dun_start"}
    /\ Called(j, "start")
    /\ tasks[j].result

\* C35: the recorder stop of the end thread of an ended activity never takes
\* effect (turns the recorder from recording to stopped) once the start thread
\* of a later activity has had its recorder start succeed.
C35_StopNotAfterLaterStart ==
    [][\A i \in DOMAIN tasks, up \in BOOLEAN :
          (ProcessEnd(i, up) /\ obs.recording /\ ~obs'.recording)
          => ~\E j \in DOMAIN tasks : j > i /\ StartedOk(j)]_vars

\* end thread i returned because its recorder stop reported failure
StopFailed(i) ==
    /\ tasks[i].kind \in {"enc_end", "dun_end"}
    /\ tasks[i].pc = "done"
    /\ tasks[i].ops = <<"stop">>
    /\ ~tasks[i].result

\* C36: no orphaned recording: whenever State is empty, no handler is under
\* way, every background thread has completed and no recorder stop has
\* failed, the external recorder is not recording.
C36_NoOrphanedRecording ==
    (/\ state = EmptyState
     /\ Pending = 0
     /\ \A i \in DOMAIN tasks : tasks[i].pc = "done" /\ ~StopFailed(i))
    => ~obs.recording

\* C37: the file policy of an activity deletes or renames only the file of
\* that activity's own recording (the one holding the recorder's latest
\* recording): every other file of the directory, among them the files saved
\* for earlier activities, is left under its name with its content, also when
\* the activity's own recording produced no file.
C37_OnlyOwnRecording ==
    [][\A n \in DOMAIN files :
          files[n].content # obs.count
          => n \in DOMAIN files' /\ files'[n] = files[n]]_vars

\* C38: processing an ENCOUNTER_END line never ends a dungeon run: when a
\* dungeon is active as the line is processed, neither the first part of the
\* handler nor its part after the sleep changes dungeon_active or the dungeon
\* identity fields, and no end thread (so no recorder stop) is started.
C38_EncounterEndKeepsDungeon ==
    [][/\ \A l \in Lines :
             (l.kind = "ENCOUNTER_END" /\ state.dungeon_active /\ ProcessLine(l))
             => /\ state'.dungeon_active
                /\ DungeonIdentity(state') = DungeonIdentity(state)
                /\ tasks' = tasks
       /\ (disp.pc = "enc_end" /\ state.dungeon_active /\ FinishEnd)
          => /\ state'.dungeon_active
             /\ DungeonIdentity(state') = DungeonIdentity(state)
             /\ tasks' = tasks]_vars

\* C39: after any calls of DungeonMonitor.start() and stop(), at most one
\* monitor loop is executing checks: while the running flag is up, at most one
\* thread is still inside _monitor_loop.
C39_OneMonitorLoop == mon.running => Cardinality(Live) <= 1

====
